---------------------------- MODULE Spec2Model ----------------------------
(***************************************************************************)
(* Model of services/intelligence/src/services/processador_documentos_v3.py *)
(* (class ProcessadorDocumentosV3 and the module function                  *)
(* processar_documento).                                                   *)
(*                                                                         *)
(* Representation.                                                         *)
(*  - A Python Optional is a sequence: Nulo (<<>>) is None, <<v>> is v.     *)
(*  - A document (caminho_pdf) is what the external libraries answer for   *)
(*    it: abrir (pdfplumber.open, l.199), primeira (convert_from_path of   *)
(*    the first page, l.209), tamanho (the second first-page conversion,   *)
(*    l.254) and paginas (convert_from_path of all pages, l.301, with the  *)
(*    answer of pytesseract.image_to_data for every page, l.317).  An      *)
(*    answer r is "ok" or the type name of the exception raised.           *)
(*  - A page's 'conf' list is a sequence of runs [typ, val, n]: n equal    *)
(*    tokens in a row.  typ is the Python type of the token as the OCR     *)
(*    binding delivers it: "int" (a number), "str" (a numeral string) or   *)
(*    "txt" (a string int() cannot parse, such as '96.58').                *)
(*  - A float with two decimals (round(x, 2), f"{x:.2f}") is an integer    *)
(*    number of hundredths; the unrounded mean is the pair (sum, count).   *)
(*  - An exception is its type name; str(e) is StrExc(tipo).               *)
(***************************************************************************)
EXTENDS Integers, Sequences, FiniteSets, TLC

VARIABLES
    processadores,  \* self.tenant_id of every ProcessadorDocumentosV3 built
    uuids,          \* number of uuid.uuid4() values drawn so far
    pc,             \* position of the running call ("idle": none)
    args,           \* arguments of the running call
    resultado,      \* validar_cpo's local dict 'resultado'
    resultado_pd,   \* processar_documento's local dict 'resultado'
    retorno,        \* what the last finished call handed to its caller
    memo,           \* an earlier finished validar_cpo call, kept to compare
    amostra,        \* input of the unit specifications (SpecDpi, SpecOcr)
    quadros         \* local variables of _validar_dpi and
                    \* _validar_confianca_ocr while they run step by step

vars == <<processadores, uuids, pc, args, resultado, resultado_pd, retorno,
          memo, amostra, quadros>>

Nulo == <<>>

Algum(v) == <<v>>

(************************** program constants ******************************)
DPI_MINIMO_REQUERIDO == 300

\* CONFIANCA_OCR_MINIMA = 95.0, in percent
CONFIANCA_OCR_MINIMA == 95

\* CONFIANCA_OCR_MINIMA in hundredths (95.00)
CONFIANCA_OCR_MINIMA_CENT == 100 * CONFIANCA_OCR_MINIMA

(****************************** bounds *************************************)
MaxPaginas == 2

MaxTrechos == 2

RepGrande == 999

MaxProcessadores == 2

MaxUuids == 3

MaxInstantes == 2

(*************************** exceptions ************************************)
\* the two types _extrair_dpi_pdf names in its inner except (l.231)
ExcConversao == {"PDFInfoNotInstalledError", "PDFPageCountError"}

\* any other exception of a library call (unreadable file, broken stream)
ExcOutras == {"PDFSyntaxError"}

\* an unexpected exception surfacing at a call of one of the class's methods
ExcInesperadas == {"RuntimeError"}

StrExc(tipo) == "str(" \o tipo \o ")"

(************************ _detectar_dpi_por_tamanho ************************)
\* mutant of ClassePorTamanho: 'or' for 'and' in the first test
ClassePorTamanhoOu(width, height) ==
    IF width >= 2000 \/ height >= 2500 THEN 300
    ELSE IF width >= 1000 /\ height >= 1400 THEN 150
    ELSE 72

\* mutant of ClassePorTamanho: class 300 only for a width close to A4's 2480
ClassePorTamanhoProxima(width, height) ==
    IF width >= 2000 /\ width <= 2480 /\ height >= 2500 THEN 300
    ELSE IF width >= 1000 /\ height >= 1400 THEN 150
    ELSE 72

\* l.261-271: the buckets of the rendered first page
ClassePorTamanho(width, height) ==
    IF width >= 2000 /\ height >= 2500 THEN 300
    ELSE IF width >= 1000 /\ height >= 1400 THEN 150
    ELSE 72

\* mutant of DetectarDpiPorTamanho: the low default also when nothing rendered
DetectarDpiPorTamanhoPadrao72(doc) ==
    IF doc.tamanho.r = "ok"
    THEN Algum(ClassePorTamanho(doc.tamanho.w, doc.tamanho.h))
    ELSE Algum(72)

\* l.241-277: None when the conversion raises or yields no image
DetectarDpiPorTamanho(doc) ==
    IF doc.tamanho.r = "ok"
    THEN Algum(ClassePorTamanho(doc.tamanho.w, doc.tamanho.h))
    ELSE Nulo

(***************************** _extrair_dpi_pdf ****************************)
\* l.187-239: pdfplumber.open, then the first conversion, then the buckets
ExtrairDpiPdf(doc) ==
    IF doc.abrir # "ok" THEN Nulo                      \* l.235-237
    ELSE IF doc.primeira \in ExcConversao THEN Nulo    \* l.231-233
    ELSE IF doc.primeira = "vazio" THEN Nulo           \* l.216 false, l.239
    ELSE IF doc.primeira # "ok" THEN Nulo              \* l.235-237
    ELSE DetectarDpiPorTamanho(doc)                    \* l.229

(******************************* _validar_dpi ******************************)
Mensagem(k, v, txt) == Algum([k |-> k, v |-> v, txt |-> txt])

\* mutant of DpiInsuficiente: '<=' for '<'
DpiInsuficienteInclusivo(dpi_detectado) == dpi_detectado <= DPI_MINIMO_REQUERIDO

\* l.165: dpi_detectado < DPI_MINIMO_REQUERIDO
DpiInsuficiente(dpi_detectado) == dpi_detectado < DPI_MINIMO_REQUERIDO

\* l.156-185.  falha: Nulo, or <<tipo>> when the call of _extrair_dpi_pdf
\* (l.158) raises, which the except of l.180 catches.
ValidarDpi(doc, falha) ==
    LET base == [aprovado |-> FALSE, dpi_detectado |-> Nulo,
                 dpi_minimo_requerido |-> DPI_MINIMO_REQUERIDO,
                 mensagem |-> Nulo]
        dpi_detectado == ExtrairDpiPdf(doc)
    IN  IF falha # Nulo
        THEN [base EXCEPT !.mensagem =
                  Mensagem("dpi_erro", <<>>, StrExc(falha[1]))]
        ELSE IF dpi_detectado = Nulo
        THEN [base EXCEPT !.mensagem = Mensagem("dpi_indetectavel", <<>>, "")]
        ELSE IF DpiInsuficiente(dpi_detectado[1])
        THEN [base EXCEPT
                 !.dpi_detectado = dpi_detectado,
                 !.mensagem = Mensagem("dpi_insuficiente",
                     <<dpi_detectado[1], DPI_MINIMO_REQUERIDO>>, "")]
        ELSE [base EXCEPT
                 !.dpi_detectado = dpi_detectado,
                 !.aprovado = TRUE,
                 !.mensagem = Mensagem("dpi_aprovado",
                     <<dpi_detectado[1], DPI_MINIMO_REQUERIDO>>, "")]

(************************** round(x, 2), f"{x:.2f}" *************************)
\* number of binary digits of i
RECURSIVE NBits(_)
NBits(i) == IF i = 0 THEN 0 ELSE 1 + NBits(i \div 2)

\* the k-th binary digit after the point of r/d, for 0 <= r < d and k >= 1
RECURSIVE BitFrac(_, _, _)
BitFrac(r, d, k) ==
    IF k = 1 THEN (2 * r) \div d ELSE BitFrac((2 * r) % d, d, k - 1)

\* the place of the first 1 after the point of r/d, for 0 < r < d
RECURSIVE PrimeiroUm(_, _)
PrimeiroUm(r, d) == IF 2 * r >= d THEN 1 ELSE 1 + PrimeiroUm(2 * r, d)

\* Whether the double nearest to m/200 lies above m/200, for m odd and not a
\* multiple of 25 (m/200 is then no double): the 54th significant binary
\* digit of m/200 decides how the 53-digit significand was rounded.
DoubleAcima(m) ==
    LET i == m \div 200
        r == m % 200
        pos == IF i > 0 THEN 54 - NBits(i) ELSE PrimeiroUm(r, 200) + 53
    IN  BitFrac(r, 200, pos) = 1

\* round(s / n, 2) in hundredths for s >= 0, n > 0: Python rounds the exact
\* value of the double s / n, to even when that value is a tie.
Arred2Pos(s, n) ==
    LET q == (100 * s) \div n
        r == (100 * s) % n
    IN  IF 2 * r < n THEN q
        ELSE IF 2 * r > n THEN q + 1
        ELSE IF (2 * q + 1) % 25 = 0
        THEN (IF q % 2 = 0 THEN q ELSE q + 1)
        ELSE (IF DoubleAcima(2 * q + 1) THEN q + 1 ELSE q)

\* round(confianca_media, 2), l.349, and {confianca_media:.2f}, l.355/361
Arred2(s, n) == IF s >= 0 THEN Arred2Pos(s, n) ELSE 0 - Arred2Pos(0 - s, n)

(************************* _validar_confianca_ocr **************************)
\* l.327: conf != '-1' -- a number is never equal to a string
PassaFiltro(t) == ~(t.typ = "str" /\ t.val = -1)

\* l.326: int(conf) raises ValueError on a string that is no integer numeral
IntFalha(conf) ==
    \E i \in 1..Len(conf) : PassaFiltro(conf[i]) /\ conf[i].typ = "txt"

\* l.325-328: confiancas_pagina, as runs [val, n]
RECURSIVE ConfiancasPagina(_)
ConfiancasPagina(conf) ==
    IF conf = <<>> THEN <<>>
    ELSE LET t == Head(conf)
         IN  (IF PassaFiltro(t) THEN <<[val |-> t.val, n |-> t.n]>> ELSE <<>>)
             \o ConfiancasPagina(Tail(conf))

\* l.314-340: the page is skipped when image_to_data or int() raises.  (An
\* empty confiancas_pagina makes l.335 raise ZeroDivisionError, which the
\* same except catches after nothing was pooled.)
PaginaPulada(pagina) == pagina.r # "ok" \/ IntFalha(pagina.conf)

\* mutant of Confiancas: the loop stops at the first page that fails
RECURSIVE ConfiancasAteFalha(_)
ConfiancasAteFalha(imgs) ==
    IF imgs = <<>> THEN <<>>
    ELSE IF PaginaPulada(Head(imgs)) THEN <<>>
    ELSE ConfiancasPagina(Head(imgs).conf) \o ConfiancasAteFalha(Tail(imgs))

\* l.311-340: the list 'confiancas' after the loop over the pages
RECURSIVE Confiancas(_)
Confiancas(imgs) ==
    IF imgs = <<>> THEN <<>>
    ELSE (IF PaginaPulada(Head(imgs)) THEN <<>>
          ELSE ConfiancasPagina(Head(imgs).conf))
         \o Confiancas(Tail(imgs))

\* sum(confiancas)
RECURSIVE Soma(_)
Soma(cs) == IF cs = <<>> THEN 0 ELSE Head(cs).val * Head(cs).n + Soma(Tail(cs))

\* len(confiancas)
RECURSIVE Conta(_)
Conta(cs) == IF cs = <<>> THEN 0 ELSE Head(cs).n + Conta(Tail(cs))

\* l.352: confianca_media >= CONFIANCA_OCR_MINIMA, on the unrounded mean
MediaAtingeMinimo(soma, conta) == soma >= CONFIANCA_OCR_MINIMA * conta

\* l.279-375
ValidarConfiancaOcr(doc) ==
    LET base == [aprovado |-> FALSE, confianca_media |-> Nulo,
                 confianca_minima_requerida |-> CONFIANCA_OCR_MINIMA_CENT,
                 mensagem |-> Nulo]
        images == doc.paginas.imgs
        confiancas == Confiancas(images)
        soma == Soma(confiancas)
        conta == Conta(confiancas)
    IN  IF doc.paginas.r # "ok"                                  \* l.370-373
        THEN [base EXCEPT !.mensagem =
                  Mensagem("ocr_erro", <<>>, StrExc(doc.paginas.r))]
        ELSE IF images = <<>>                                    \* l.306-308
        THEN [base EXCEPT !.mensagem = Mensagem("ocr_sem_imagens", <<>>, "")]
        ELSE IF confiancas = <<>>                                \* l.342-345
        THEN [base EXCEPT !.mensagem = Mensagem("ocr_sem_dados", <<>>, "")]
        ELSE IF MediaAtingeMinimo(soma, conta)                   \* l.352-357
        THEN [base EXCEPT
                 !.confianca_media = Algum(Arred2(soma, conta)),
                 !.aprovado = TRUE,
                 !.mensagem = Mensagem("ocr_aprovada",
                     <<Arred2(soma, conta), CONFIANCA_OCR_MINIMA_CENT>>, "")]
        ELSE [base EXCEPT                                        \* l.358-363
                 !.confianca_media = Algum(Arred2(soma, conta)),
                 !.mensagem = Mensagem("ocr_insuficiente",
                     <<Arred2(soma, conta), CONFIANCA_OCR_MINIMA_CENT>>, "")]

(****************************** documents **********************************)
ResultadosAbrir == {"ok"} \cup ExcOutras

ResultadosPrimeira == {"ok", "vazio"} \cup ExcConversao \cup ExcOutras

Larguras == {999, 1000, 1200, 1999, 2000, 2500}

Alturas == {1399, 1400, 1600, 2499, 2500, 3600}

Imagem(w, h) == [r |-> "ok", w |-> w, h |-> h]

SemImagem(r) == [r |-> r, w |-> 0, h |-> 0]

Tamanhos ==
    {Imagem(w, h) : w \in Larguras, h \in Alturas}
    \cup {SemImagem(r) : r \in {"vazio", "PDFPageCountError"}}

\* the tokens image_to_data can put into 'conf'
Tokens ==
    {[typ |-> "int", val |-> v] : v \in {-1, 94, 95, 100}}
    \cup {[typ |-> "str", val |-> v] : v \in {-1, 96}}
    \cup {[typ |-> "txt", val |-> 0]}

\* the runs of a 'conf' list: every token once, and a long run of 95 (with
\* one 94 its mean is just under the minimum)
Trechos ==
    {[typ |-> t.typ, val |-> t.val, n |-> 1] : t \in Tokens}
    \cup {[typ |-> "int", val |-> CONFIANCA_OCR_MINIMA, n |-> RepGrande]}

Pagina(conf) == [r |-> "ok", conf |-> conf]

PaginaFalha == [r |-> "TesseractError", conf |-> <<>>]

\* the 'conf' lists of exactly k runs
RECURSIVE ListasConf(_)
ListasConf(k) ==
    IF k = 0 THEN {<<>>}
    ELSE {<<t>> \o c : t \in Trechos, c \in ListasConf(k - 1)}

\* the lists of exactly n pages holding at most t runs in all
RECURSIVE ListasPaginas(_, _)
ListasPaginas(n, t) ==
    IF n = 0 THEN {<<>>}
    ELSE LET semFalha == ListasPaginas(n - 1, t)
         IN  {<<PaginaFalha>> \o ps : ps \in semFalha}
             \cup UNION {LET cs == ListasConf(k)
                             resto == ListasPaginas(n - 1, t - k)
                         IN  {<<Pagina(c)>> \o ps : c \in cs, ps \in resto}
                         : k \in 0..t}

ConversaoOk(imgs) == [r |-> "ok", imgs |-> imgs]

ConversaoFalha(r) == [r |-> r, imgs |-> <<>>]

Doc(abrir, primeira, tamanho, paginas) ==
    [abrir |-> abrir, primeira |-> primeira, tamanho |-> tamanho,
     paginas |-> paginas]

\* the documents of SpecDpi: every answer of the three first-page calls
DocsDpi ==
    {Doc(a, p, t, ConversaoFalha("PDFPageCountError")) :
        a \in ResultadosAbrir, p \in ResultadosPrimeira, t \in Tamanhos}

AmostrasDpi ==
    {[doc |-> d, falha |-> f] :
        d \in DocsDpi, f \in {Nulo} \cup {Algum(e) : e \in ExcInesperadas}}

\* the documents of SpecOcr: every answer of the all-pages conversion and OCR
DocsOcr ==
    {Doc("ok", "ok", Imagem(2500, 3600), c) :
        c \in {ConversaoFalha(e) : e \in ExcConversao \cup ExcOutras}
              \cup {ConversaoOk(ps) :
                      ps \in UNION {ListasPaginas(n, MaxTrechos) : n \in 0..MaxPaginas}}}

AmostrasOcr == {[doc |-> d, falha |-> Nulo] : d \in DocsOcr}

(************************ unit specifications ******************************)
InitComum ==
    /\ processadores = <<>>
    /\ uuids = 0
    /\ args = Nulo
    /\ resultado = Nulo
    /\ resultado_pd = Nulo
    /\ retorno = Nulo
    /\ memo = Nulo
    /\ quadros = Nulo

InitDpi ==
    /\ InitComum
    /\ pc = "unidade"
    /\ amostra \in {Algum(a) : a \in AmostrasDpi}

InitOcr ==
    /\ InitComum
    /\ pc = "unidade"
    /\ amostra \in {Algum(a) : a \in AmostrasOcr}

\* one call of _validar_dpi on the sample
AplicarValidarDpi ==
    /\ pc = "unidade"
    /\ pc' = "feito"
    /\ retorno' = Algum(ValidarDpi(amostra[1].doc, amostra[1].falha))
    /\ UNCHANGED <<processadores, uuids, args, resultado, resultado_pd, memo,
                   amostra, quadros>>

\* one call of _validar_confianca_ocr on the sample
AplicarValidarConfiancaOcr ==
    /\ pc = "unidade"
    /\ pc' = "feito"
    /\ retorno' = Algum(ValidarConfiancaOcr(amostra[1].doc))
    /\ UNCHANGED <<processadores, uuids, args, resultado, resultado_pd, memo,
                   amostra, quadros>>

NextDpi == AplicarValidarDpi

NextOcr == AplicarValidarConfiancaOcr

SpecDpi == InitDpi /\ [][NextDpi]_vars

SpecOcr == InitOcr /\ [][NextOcr]_vars

(***************************** the orchestrator ****************************)
\* str(uuid.uuid4()): the k-th value drawn; no two draws are equal
Uuid4(k) == "uuid-" \o ToString(k)

\* Python's 'a or b' on an Optional[str] a: None and '' are falsy
Ou(a, b) == IF a = Nulo \/ a = Algum("") THEN b ELSE a[1]

\* mutant of ResolverTenant: the argument is ignored
ResolverTenantDoProcessador(tenant_id, self_tenant) == self_tenant

\* l.71 and l.392: tenant_id = tenant_id or self.tenant_id
ResolverTenant(tenant_id, self_tenant) == Ou(tenant_id, self_tenant)

\* l.75-96: validar_cpo's 'resultado' before the try
ResultadoInicial(tenant_id, caminho_pdf, timestamp) ==
    [tenant_id |-> tenant_id,
     arquivo |-> caminho_pdf,
     timestamp |-> timestamp,
     status_cpo |-> Nulo,
     validacoes |->
        [dpi |-> [aprovado |-> FALSE, dpi_detectado |-> Nulo,
                  dpi_minimo_requerido |-> DPI_MINIMO_REQUERIDO,
                  mensagem |-> Nulo],
         ocr_confidence |->
                 [aprovado |-> FALSE, confianca_media |-> Nulo,
                  confianca_minima_requerida |-> CONFIANCA_OCR_MINIMA_CENT,
                  mensagem |-> Nulo]],
     erros |-> <<>>,
     revisao_necessaria |-> FALSE]

\* mutant of Classificar: the elif tests dpi_aprovado alone
ClassificarSoDpi(res) ==
    LET dpi_aprovado == res.validacoes.dpi.aprovado
        ocr_aprovado == res.validacoes.ocr_confidence.aprovado
    IN  IF dpi_aprovado /\ ocr_aprovado
        THEN [res EXCEPT !.status_cpo = Algum("VERDE"),
                         !.revisao_necessaria = FALSE]
        ELSE IF dpi_aprovado
        THEN [res EXCEPT !.status_cpo = Algum("AMARELO"),
                         !.revisao_necessaria = TRUE]
        ELSE [res EXCEPT !.status_cpo = Algum("VERMELHO"),
                         !.revisao_necessaria = TRUE]

\* l.108-119: status_cpo and revisao_necessaria from the two 'aprovado' flags
Classificar(res) ==
    LET dpi_aprovado == res.validacoes.dpi.aprovado
        ocr_aprovado == res.validacoes.ocr_confidence.aprovado
    IN  IF dpi_aprovado /\ ocr_aprovado
        THEN [res EXCEPT !.status_cpo = Algum("VERDE"),
                         !.revisao_necessaria = FALSE]
        ELSE IF dpi_aprovado \/ ocr_aprovado
        THEN [res EXCEPT !.status_cpo = Algum("AMARELO"),
                         !.revisao_necessaria = TRUE]
        ELSE [res EXCEPT !.status_cpo = Algum("VERMELHO"),
                         !.revisao_necessaria = TRUE]

\* mutant of TratarErroCpo: the error is recorded, the status is left as it was
TratarErroCpoSemStatus(res, tipo) ==
    [res EXCEPT
        !.erros = Append(@, [tipo |-> tipo, mensagem |-> StrExc(tipo)]),
        !.revisao_necessaria = TRUE]

\* mutant of TratarErroCpo: the status is forced, the error is not recorded
TratarErroCpoSemRegistro(res, tipo) ==
    [res EXCEPT
        !.status_cpo = Algum("VERMELHO"),
        !.revisao_necessaria = TRUE]

\* mutant of TratarErroCpo: the errors of an earlier call are carried over
TratarErroCpoAcumulado(res, tipo) ==
    [res EXCEPT
        !.erros = (IF memo # Nulo THEN memo[1].v.erros ELSE <<>>)
                      \o <<[tipo |-> tipo, mensagem |-> StrExc(tipo)]>>,
        !.status_cpo = Algum("VERMELHO"),
        !.revisao_necessaria = TRUE]

\* l.126-133: the except of validar_cpo
TratarErroCpo(res, tipo) ==
    [res EXCEPT
        !.erros = Append(@, [tipo |-> tipo, mensagem |-> StrExc(tipo)]),
        !.status_cpo = Algum("VERMELHO"),
        !.revisao_necessaria = TRUE]

\* l.396-405: processar_documento's 'resultado' before the try
ResultadoPdInicial(tenant_id, caminho_pdf, timestamp) ==
    [tenant_id |-> tenant_id,
     arquivo |-> caminho_pdf,
     timestamp |-> timestamp,
     processamento |-> [status |-> "iniciado", validacao_cpo |-> Nulo],
     erros |-> <<>>]

\* mutant of ConcluirPd: the verdict is stored, the marker is not set
ConcluirPdSemMarcador(res, validacao_cpo) ==
    [res EXCEPT !.processamento.validacao_cpo = Algum(validacao_cpo)]

\* l.410-411: the verdict is stored, then the marker is set
ConcluirPd(res, validacao_cpo) ==
    [res EXCEPT !.processamento.validacao_cpo = Algum(validacao_cpo),
                !.processamento.status = "concluido"]

\* l.415-421: the except of processar_documento
TratarErroPd(res, tipo) ==
    [res EXCEPT
        !.processamento.status = "erro",
        !.erros = Append(@, [tipo |-> tipo, mensagem |-> StrExc(tipo)])]

\* Where an unexpected exception surfaces in the running call:
\*   "prologo"  in validar_cpo before its try (l.71-96)
\*   "extrair"  at the call of _extrair_dpi_pdf (l.158)
\*   "dpi"      at the call of _validar_dpi (l.100)
\*   "ocr"      at the call of _validar_confianca_ocr (l.104)
\*   "status"   in the status computation (l.108-124)
Falhas == {"nenhuma", "prologo", "extrair", "dpi", "ocr", "status"}

ExcDaFalha == "RuntimeError"

\* the values datetime.utcnow() may return
Instantes == 1..MaxInstantes

\* the tenant_id arguments: None, '' and two names
TenantsParam == {Nulo, Algum(""), Algum("acme"), Algum("globex")}

Init ==
    /\ InitComum
    /\ pc = "idle"
    /\ amostra = Nulo

\* l.42-50: ProcessadorDocumentosV3(tenant_id)
Construir(T) ==
    /\ pc = "idle"
    /\ Len(processadores) < MaxProcessadores
    /\ \E t \in T :
        IF Ou(t, "") = ""
        THEN /\ uuids < MaxUuids
             /\ uuids' = uuids + 1
             /\ processadores' = Append(processadores,
                    [tenant_id |-> Uuid4(uuids + 1), gerado |-> TRUE])
        ELSE /\ uuids' = uuids
             /\ processadores' = Append(processadores,
                    [tenant_id |-> t[1], gerado |-> FALSE])
    /\ UNCHANGED <<pc, args, resultado, resultado_pd, retorno, memo, amostra, quadros>>

\* the arguments of a call; tenant_cpo is the tenant_id validar_cpo receives,
\* chamadas_cpo counts the entries into validar_cpo
Chamada(via, p, self_tenant, d, t, f) ==
    [via |-> via, proc |-> p, self_tenant |-> self_tenant, caminho_pdf |-> d,
     tenant_id |-> t, tenant_cpo |-> t, falha |-> f, chamadas_cpo |-> 0]

\* a caller invokes processador.validar_cpo(caminho_pdf, tenant_id); DF is
\* the set of <<document, fault>> pairs the call may meet
ChamarValidarCpo(DF, T) ==
    /\ pc = "idle"
    /\ \E p \in 1..Len(processadores), df \in DF, t \in T :
        args' = Algum(Chamada("validar_cpo", p, processadores[p].tenant_id,
                              df[1], t, df[2]))
    /\ pc' = "cpo_entrada"
    /\ UNCHANGED <<processadores, uuids, resultado, resultado_pd, retorno,
                   memo, amostra, quadros>>

\* a caller invokes processador.processar_documento(caminho_pdf, tenant_id)
ChamarProcessarDocumento(DF, T) ==
    /\ pc = "idle"
    /\ \E p \in 1..Len(processadores), df \in DF, t \in T :
        args' = Algum(Chamada("processar_documento", p,
                              processadores[p].tenant_id, df[1], t, df[2]))
    /\ pc' = "pd_entrada"
    /\ UNCHANGED <<processadores, uuids, resultado, resultado_pd, retorno,
                   memo, amostra, quadros>>

\* l.442-457: the module function builds a processor of its own and calls
\* its processar_documento
ChamarFuncao(DF, T) ==
    /\ pc = "idle"
    /\ \E df \in DF, t \in T :
        IF Ou(t, "") = ""
        THEN /\ uuids < MaxUuids
             /\ uuids' = uuids + 1
             /\ args' = Algum(Chamada("funcao", 0, Uuid4(uuids + 1),
                                      df[1], t, df[2]))
        ELSE /\ uuids' = uuids
             /\ args' = Algum(Chamada("funcao", 0, t[1], df[1], t, df[2]))
    /\ pc' = "pd_entrada"
    /\ UNCHANGED <<processadores, resultado, resultado_pd, retorno, memo,
                   amostra, quadros>>

\* l.392-405, up to the call of l.409, which passes the resolved tenant_id.
\* I: the values utcnow() may return here.
EntrarProcessarDocumento(I) ==
    /\ pc = "pd_entrada"
    /\ \E ts \in I :
        LET tenant_id == ResolverTenant(args[1].tenant_id, args[1].self_tenant)
        IN  /\ resultado_pd' = Algum(ResultadoPdInicial(tenant_id,
                                        args[1].caminho_pdf, ts))
            /\ args' = Algum([args[1] EXCEPT !.tenant_cpo = Algum(tenant_id)])
    /\ pc' = "pd_chamada"
    /\ UNCHANGED <<processadores, uuids, resultado, retorno, memo, amostra, quadros>>

\* l.71-96.  An exception here is outside validar_cpo's try: it reaches the
\* caller, which for processar_documento is the except of l.415.
EntrarValidarCpo(I) ==
    /\ pc \in {"cpo_entrada", "pd_chamada"}
    /\ IF args[1].falha = "prologo"
       THEN IF pc = "cpo_entrada"
            THEN /\ pc' = "cpo_excecao"
                 /\ UNCHANGED <<resultado, resultado_pd>>
            ELSE /\ resultado_pd' = Algum(TratarErroPd(resultado_pd[1], ExcDaFalha))
                 /\ pc' = "pd_saida"
                 /\ UNCHANGED resultado
       ELSE /\ \E ts \in I :
                resultado' = Algum(ResultadoInicial(
                    ResolverTenant(args[1].tenant_cpo, args[1].self_tenant),
                    args[1].caminho_pdf, ts))
            /\ pc' = "cpo_dpi"
            /\ UNCHANGED resultado_pd
    /\ args' = Algum([args[1] EXCEPT !.chamadas_cpo = @ + 1])
    /\ UNCHANGED <<processadores, uuids, retorno, memo, amostra, quadros>>

\* l.100-101, or the except of l.126 when the call raises
PassoDpi ==
    /\ pc = "cpo_dpi"
    /\ IF args[1].falha = "dpi"
       THEN /\ resultado' = Algum(TratarErroCpo(resultado[1], ExcDaFalha))
            /\ pc' = "cpo_saida"
       ELSE /\ resultado' = Algum([resultado[1] EXCEPT !.validacoes.dpi =
                ValidarDpi(args[1].caminho_pdf,
                    IF args[1].falha = "extrair" THEN Algum(ExcDaFalha) ELSE Nulo)])
            /\ pc' = "cpo_ocr"
    /\ UNCHANGED <<processadores, uuids, args, resultado_pd, retorno, memo,
                   amostra, quadros>>

\* l.104-105, or the except of l.126 when the call raises
PassoOcr ==
    /\ pc = "cpo_ocr"
    /\ IF args[1].falha = "ocr"
       THEN /\ resultado' = Algum(TratarErroCpo(resultado[1], ExcDaFalha))
            /\ pc' = "cpo_saida"
       ELSE /\ resultado' = Algum([resultado[1] EXCEPT
                !.validacoes.ocr_confidence =
                    ValidarConfiancaOcr(args[1].caminho_pdf)])
            /\ pc' = "cpo_status"
    /\ UNCHANGED <<processadores, uuids, args, resultado_pd, retorno, memo,
                   amostra, quadros>>

\* l.108-124, or the except of l.126: an exception before or after the
\* status was set leaves the same 'resultado', the except sets both fields
PassoStatus ==
    /\ pc = "cpo_status"
    /\ IF args[1].falha = "status"
       THEN resultado' = Algum(TratarErroCpo(resultado[1], ExcDaFalha))
       ELSE resultado' = Algum(Classificar(resultado[1]))
    /\ pc' = "cpo_saida"
    /\ UNCHANGED <<processadores, uuids, args, resultado_pd, retorno, memo,
                   amostra, quadros>>

\* what memo keeps of a finished validar_cpo call
Lembranca(a, v) ==
    [proc |-> a.proc, self_tenant |-> a.self_tenant,
     caminho_pdf |-> a.caminho_pdf, tenant_cpo |-> a.tenant_cpo,
     falha |-> a.falha, v |-> v]

\* l.135: 'return resultado'.  A caller of validar_cpo gets the verdict;
\* processar_documento stores it and sets its marker (l.410-411).
\* L: whether the finished call may be kept in memo.
SairValidarCpo(L) ==
    /\ pc = "cpo_saida"
    /\ IF args[1].via = "validar_cpo"
       THEN /\ pc' = "idle"
            /\ args' = Nulo
            /\ resultado_pd' = resultado_pd
       ELSE /\ resultado_pd' = Algum(ConcluirPd(resultado_pd[1], resultado[1]))
            /\ pc' = "pd_saida"
            /\ args' = args
    /\ resultado' = Nulo
    /\ \E lembrar \in L :
        memo' = IF lembrar THEN Algum(Lembranca(args[1], resultado[1]))
                ELSE memo
    /\ UNCHANGED <<processadores, uuids, retorno, amostra, quadros>>

\* the exception of EntrarValidarCpo reaches the caller of validar_cpo
PropagarExcecao ==
    /\ pc = "cpo_excecao"
    /\ pc' = "idle"
    /\ args' = Nulo
    /\ UNCHANGED <<processadores, uuids, resultado, resultado_pd, retorno,
                   memo, amostra, quadros>>

\* l.423: 'return resultado' of processar_documento
SairProcessarDocumento ==
    /\ pc = "pd_saida"
    /\ resultado_pd' = Nulo
    /\ args' = Nulo
    /\ pc' = "idle"
    /\ UNCHANGED <<processadores, uuids, resultado, retorno, memo, amostra, quadros>>

(********************** documents of the call specifications ***************)
Trecho(typ, val, n) == [typ |-> typ, val |-> val, n |-> n]

\* first-page answers: classes 300, 150 and 72, and every way to fail
PrimeirasPaginas ==
    {<<"ok", "ok", Imagem(2500, 3600)>>,
     <<"ok", "ok", Imagem(1200, 1600)>>,
     <<"ok", "ok", Imagem(999, 1399)>>}
    \cup {<<a, "ok", Imagem(2500, 3600)>> : a \in ExcOutras}
    \cup {<<"ok", p, Imagem(2500, 3600)>> : p \in ResultadosPrimeira \ {"ok"}}
    \cup {<<"ok", "ok", SemImagem(r)>> : r \in {"vazio", "PDFPageCountError"}}

\* all-pages answers: approved, below the minimum, 94.999, and no data
TodasPaginas ==
    {ConversaoOk(<<Pagina(<<Trecho("int", 95, 1)>>)>>),
     ConversaoOk(<<Pagina(<<Trecho("int", 94, 1)>>)>>),
     ConversaoOk(<<Pagina(<<Trecho("int", 95, RepGrande), Trecho("int", 94, 1)>>)>>),
     ConversaoOk(<<Pagina(<<Trecho("str", -1, 1)>>)>>),
     ConversaoOk(<<PaginaFalha>>),
     ConversaoOk(<<>>),
     ConversaoFalha("PDFPageCountError")}

DocsCpo ==
    {Doc(f[1], f[2], f[3], ConversaoOk(<<Pagina(<<Trecho("int", 95, 1)>>)>>)) :
        f \in PrimeirasPaginas}
    \cup {Doc("ok", "ok", t, c) :
            t \in {Imagem(2500, 3600), Imagem(1200, 1600)}, c \in TodasPaginas}

\* one document for each pair of 'aprovado' flags
DocsPar ==
    {Doc("ok", "ok", t, ConversaoOk(<<Pagina(<<Trecho("int", v, 1)>>)>>)) :
        t \in {Imagem(2500, 3600), Imagem(1200, 1600)}, v \in {94, 95}}

\* every document without a fault, and every fault on the documents of DocsPar
\* a document whose first page does not render
DocSemPrimeira ==
    Doc("ok", "PDFPageCountError", Imagem(2500, 3600),
        ConversaoOk(<<Pagina(<<Trecho("int", 95, 1)>>)>>))

ChamadasCpo ==
    (DocsCpo \X {"nenhuma"}) \cup ((DocsPar \cup {DocSemPrimeira}) \X Falhas)

\* the calls of the two-call specification
ChamadasPar == DocsPar \X {"nenhuma", "ocr"}

(**************************** specifications *******************************)
Next ==
    \/ Construir({Nulo, Algum("acme")})
    \/ ChamarValidarCpo(ChamadasCpo, {Nulo, Algum(""), Algum("globex")})
    \/ ChamarProcessarDocumento(ChamadasCpo, {Nulo, Algum(""), Algum("globex")})
    \/ ChamarFuncao(ChamadasCpo, {Nulo, Algum(""), Algum("globex")})
    \/ EntrarProcessarDocumento({1})
    \/ EntrarValidarCpo({1})
    \/ PassoDpi
    \/ PassoOcr
    \/ PassoStatus
    \/ SairValidarCpo({FALSE})
    \/ PropagarExcecao
    \/ SairProcessarDocumento

Spec == Init /\ [][Next]_vars

\* two calls compared: the same steps on fewer calls, with the clock free
\* and any finished validar_cpo call kept in memo or not
NextPar ==
    \/ Construir({Nulo, Algum("acme")})
    \/ ChamarValidarCpo(ChamadasPar, {Nulo, Algum(""), Algum("acme")})
    \/ ChamarProcessarDocumento(ChamadasPar, {Nulo, Algum("acme")})
    \/ EntrarProcessarDocumento({1})
    \/ EntrarValidarCpo(Instantes)
    \/ PassoDpi
    \/ PassoOcr
    \/ PassoStatus
    \/ SairValidarCpo(BOOLEAN)
    \/ SairProcessarDocumento

SpecPar == Init /\ [][NextPar]_vars

(************** _validar_confianca_ocr, one library call a step ************)
\* l.342-363: the assessment made of the pooled list 'confiancas'
AvaliarConfiancas(confiancas) ==
    LET base == [aprovado |-> FALSE, confianca_media |-> Nulo,
                 confianca_minima_requerida |-> CONFIANCA_OCR_MINIMA_CENT,
                 mensagem |-> Nulo]
        soma == Soma(confiancas)
        conta == Conta(confiancas)
    IN  IF confiancas = <<>>                                     \* l.342-345
        THEN [base EXCEPT !.mensagem = Mensagem("ocr_sem_dados", <<>>, "")]
        ELSE IF MediaAtingeMinimo(soma, conta)                   \* l.352-357
        THEN [base EXCEPT
                 !.confianca_media = Algum(Arred2(soma, conta)),
                 !.aprovado = TRUE,
                 !.mensagem = Mensagem("ocr_aprovada",
                     <<Arred2(soma, conta), CONFIANCA_OCR_MINIMA_CENT>>, "")]
        ELSE [base EXCEPT                                        \* l.358-363
                 !.confianca_media = Algum(Arred2(soma, conta)),
                 !.mensagem = Mensagem("ocr_insuficiente",
                     <<Arred2(soma, conta), CONFIANCA_OCR_MINIMA_CENT>>, "")]

\* mutant of PaginasConvertidas: the two assessments share the rendered
\* images, and the first-page conversion of _extrair_dpi_pdf replaces them
PaginasCompartilhadas(doc) ==
    IF quadros[1].dpi.pc \in {"tamanho", "avaliar", "fim"}
    THEN [doc.paginas EXCEPT !.imgs = IF @ = <<>> THEN @ ELSE <<Head(@)>>]
    ELSE doc.paginas

\* l.301-304: what convert_from_path(caminho_pdf, dpi=300) answers
PaginasConvertidas(doc) == doc.paginas

\* the locals of _validar_confianca_ocr at its entry; chamadas_ocr counts
\* the image_to_data calls made for each page
QuadroOcrInicial ==
    [pc |-> "converter", images |-> <<>>, idx |-> 0, confiancas |-> <<>>,
     chamadas_ocr |-> <<>>, resultado |-> Nulo]

\* the locals of a method that is not running
QuadroParado ==
    [pc |-> "parado", dpi_detectado |-> Nulo, resultado |-> Nulo]

\* l.301-308: the conversion of all pages; its exception goes to the except
\* of l.370, no image to the return of l.308
ConverterPaginas ==
    /\ pc = "paralelo"
    /\ quadros[1].ocr.pc = "converter"
    /\ LET q == quadros[1].ocr
           conv == PaginasConvertidas(amostra[1].doc)
           base == [aprovado |-> FALSE, confianca_media |-> Nulo,
                    confianca_minima_requerida |-> CONFIANCA_OCR_MINIMA_CENT,
                    mensagem |-> Nulo]
       IN  quadros' = Algum([quadros[1] EXCEPT !.ocr =
               IF conv.r # "ok"
               THEN [q EXCEPT !.pc = "fim",
                        !.resultado = Algum([base EXCEPT !.mensagem =
                            Mensagem("ocr_erro", <<>>, StrExc(conv.r))])]
               ELSE IF conv.imgs = <<>>
               THEN [q EXCEPT !.pc = "fim",
                        !.resultado = Algum([base EXCEPT !.mensagem =
                            Mensagem("ocr_sem_imagens", <<>>, "")])]
               ELSE [q EXCEPT !.pc = "laco", !.images = conv.imgs, !.idx = 1,
                        !.chamadas_ocr = [i \in 1..Len(conv.imgs) |-> 0]]])
    /\ UNCHANGED <<processadores, uuids, pc, args, resultado, resultado_pd,
                   retorno, memo, amostra>>

\* mutant of ProcessarPagina: a page that failed once is tried again
ProcessarPaginaComRetentativa ==
    /\ pc = "paralelo"
    /\ quadros[1].ocr.pc = "laco"
    /\ quadros[1].ocr.idx <= Len(quadros[1].ocr.images)
    /\ LET q == quadros[1].ocr
           pagina == q.images[q.idx]
       IN  quadros' = Algum([quadros[1] EXCEPT !.ocr =
               IF PaginaPulada(pagina)
               THEN [q EXCEPT !.chamadas_ocr[q.idx] = @ + 1,
                        !.idx = IF q.chamadas_ocr[q.idx] = 0 THEN @ ELSE @ + 1]
               ELSE [q EXCEPT !.chamadas_ocr[q.idx] = @ + 1,
                        !.confiancas = @ \o ConfiancasPagina(pagina.conf),
                        !.idx = @ + 1]])
    /\ UNCHANGED <<processadores, uuids, pc, args, resultado, resultado_pd,
                   retorno, memo, amostra>>

\* l.313-340: one turn of the loop.  The page's tokens are pooled (l.331), or
\* the except of l.338 is reached and 'continue' goes to the next page.
ProcessarPagina ==
    /\ pc = "paralelo"
    /\ quadros[1].ocr.pc = "laco"
    /\ quadros[1].ocr.idx <= Len(quadros[1].ocr.images)
    /\ LET q == quadros[1].ocr
           pagina == q.images[q.idx]
       IN  quadros' = Algum([quadros[1] EXCEPT !.ocr =
               IF PaginaPulada(pagina)
               THEN [q EXCEPT !.chamadas_ocr[q.idx] = @ + 1,
                        !.idx = @ + 1]
               ELSE [q EXCEPT !.chamadas_ocr[q.idx] = @ + 1,
                        !.confiancas = @ \o ConfiancasPagina(pagina.conf),
                        !.idx = @ + 1]])
    /\ UNCHANGED <<processadores, uuids, pc, args, resultado, resultado_pd,
                   retorno, memo, amostra>>

\* l.342-375: after the last page, the assessment and 'return resultado'
ConcluirOcr ==
    /\ pc = "paralelo"
    /\ quadros[1].ocr.pc = "laco"
    /\ quadros[1].ocr.idx > Len(quadros[1].ocr.images)
    /\ quadros' = Algum([quadros[1] EXCEPT
           !.ocr.pc = "fim",
           !.ocr.resultado = Algum(AvaliarConfiancas(quadros[1].ocr.confiancas))])
    /\ UNCHANGED <<processadores, uuids, pc, args, resultado, resultado_pd,
                   retorno, memo, amostra>>

\* _validar_confianca_ocr alone, on every document of SpecOcr
InitPaginas ==
    /\ processadores = <<>>
    /\ uuids = 0
    /\ args = Nulo
    /\ resultado = Nulo
    /\ resultado_pd = Nulo
    /\ retorno = Nulo
    /\ memo = Nulo
    /\ pc = "paralelo"
    /\ amostra \in {Algum(a) : a \in AmostrasOcr}
    /\ quadros = Algum([dpi |-> QuadroParado, ocr |-> QuadroOcrInicial])

NextPaginas ==
    \/ ConverterPaginas
    \/ ProcessarPagina
    \/ ConcluirOcr

SpecPaginas == InitPaginas /\ [][NextPaginas]_vars

(******************** _validar_dpi, one library call a step ****************)
\* l.160-173: the assessment made of dpi_detectado
AvaliarDpi(dpi_detectado) ==
    LET base == [aprovado |-> FALSE, dpi_detectado |-> dpi_detectado,
                 dpi_minimo_requerido |-> DPI_MINIMO_REQUERIDO,
                 mensagem |-> Nulo]
    IN  IF dpi_detectado = Nulo
        THEN [base EXCEPT !.mensagem = Mensagem("dpi_indetectavel", <<>>, "")]
        ELSE IF DpiInsuficiente(dpi_detectado[1])
        THEN [base EXCEPT !.mensagem = Mensagem("dpi_insuficiente",
                     <<dpi_detectado[1], DPI_MINIMO_REQUERIDO>>, "")]
        ELSE [base EXCEPT
                 !.aprovado = TRUE,
                 !.mensagem = Mensagem("dpi_aprovado",
                     <<dpi_detectado[1], DPI_MINIMO_REQUERIDO>>, "")]

\* the locals of _validar_dpi at its entry
QuadroDpiInicial ==
    [pc |-> "abrir", dpi_detectado |-> Nulo, resultado |-> Nulo]

\* l.199: pdfplumber.open; its exception goes to the except of l.235
AbrirPdf ==
    /\ pc = "paralelo"
    /\ quadros[1].dpi.pc = "abrir"
    /\ quadros' = Algum([quadros[1] EXCEPT !.dpi.pc =
           IF amostra[1].doc.abrir = "ok" THEN "primeira" ELSE "avaliar"])
    /\ UNCHANGED <<processadores, uuids, pc, args, resultado, resultado_pd,
                   retorno, memo, amostra>>

\* l.209-239: the conversion of the first page; None unless an image came
ConverterPrimeira ==
    /\ pc = "paralelo"
    /\ quadros[1].dpi.pc = "primeira"
    /\ quadros' = Algum([quadros[1] EXCEPT !.dpi.pc =
           IF amostra[1].doc.primeira = "ok" THEN "tamanho" ELSE "avaliar"])
    /\ UNCHANGED <<processadores, uuids, pc, args, resultado, resultado_pd,
                   retorno, memo, amostra>>

\* l.229, l.254-277: the second conversion and the buckets
MedirTamanho ==
    /\ pc = "paralelo"
    /\ quadros[1].dpi.pc = "tamanho"
    /\ quadros' = Algum([quadros[1] EXCEPT
           !.dpi.pc = "avaliar",
           !.dpi.dpi_detectado = DetectarDpiPorTamanho(amostra[1].doc)])
    /\ UNCHANGED <<processadores, uuids, pc, args, resultado, resultado_pd,
                   retorno, memo, amostra>>

\* l.160-185: the assessment and 'return resultado'
ConcluirDpi ==
    /\ pc = "paralelo"
    /\ quadros[1].dpi.pc = "avaliar"
    /\ quadros' = Algum([quadros[1] EXCEPT
           !.dpi.pc = "fim",
           !.dpi.resultado = Algum(AvaliarDpi(quadros[1].dpi.dpi_detectado))])
    /\ UNCHANGED <<processadores, uuids, pc, args, resultado, resultado_pd,
                   retorno, memo, amostra>>

(********* validar_cpo with its two assessments run side by side ***********)
\* l.75-98: 'resultado' is built, then both assessments are started
Bifurcar ==
    /\ pc = "bifurcar"
    /\ resultado' = Algum(ResultadoInicial("acme", amostra[1].doc, 1))
    /\ quadros' = Algum([dpi |-> QuadroDpiInicial, ocr |-> QuadroOcrInicial])
    /\ pc' = "paralelo"
    /\ UNCHANGED <<processadores, uuids, args, resultado_pd, retorno, memo,
                   amostra>>

\* l.101, l.105, l.108-119: both assessments returned; they are stored and
\* the status is set
Juntar ==
    /\ pc = "paralelo"
    /\ quadros[1].dpi.pc = "fim"
    /\ quadros[1].ocr.pc = "fim"
    /\ resultado' = Algum(Classificar([resultado[1] EXCEPT
           !.validacoes.dpi = quadros[1].dpi.resultado[1],
           !.validacoes.ocr_confidence = quadros[1].ocr.resultado[1]]))
    /\ pc' = "cpo_saida"
    /\ UNCHANGED <<processadores, uuids, args, resultado_pd, retorno, memo,
                   amostra, quadros>>

\* all-pages answers of two pages: one page approved alone and the document
\* not, and a failed page before a good one
PaginasConc ==
    TodasPaginas
    \cup {ConversaoOk(<<Pagina(<<Trecho("int", 95, 1)>>),
                        Pagina(<<Trecho("int", 94, 1)>>)>>),
          ConversaoOk(<<PaginaFalha, Pagina(<<Trecho("int", 95, 1)>>)>>)}

AmostrasConc ==
    {[doc |-> Doc(f[1], f[2], f[3], c), falha |-> Nulo] :
        f \in PrimeirasPaginas, c \in PaginasConc}

InitConc ==
    /\ InitComum
    /\ pc = "bifurcar"
    /\ amostra \in {Algum(a) : a \in AmostrasConc}

NextConc ==
    \/ Bifurcar
    \/ AbrirPdf
    \/ ConverterPrimeira
    \/ MedirTamanho
    \/ ConcluirDpi
    \/ ConverterPaginas
    \/ ProcessarPagina
    \/ ConcluirOcr
    \/ Juntar

SpecConc == InitConc /\ [][NextConc]_vars

(******************************** claims ***********************************)
\* validar_cpo stands at its 'return resultado' (l.135)
NoRetornoCpo == pc = "cpo_saida"

\* processar_documento stands at its 'return resultado' (l.423)
NoRetornoPd == pc = "pd_saida"

Cores == {Algum("VERDE"), Algum("AMARELO"), Algum("VERMELHO")}

FalhasNoTry == {"dpi", "ocr", "status"}

DpiAprovado == resultado[1].validacoes.dpi.aprovado

OcrAprovado == resultado[1].validacoes.ocr_confidence.aprovado

\* C1: validar_cpo never raises for a failure inside the resolution
\* assessment, the OCR assessment or the status computation: the call then
\* reaches its return with a verdict whose status_cpo is VERDE, AMARELO or
\* VERMELHO (never None) and which holds tenant_id, arquivo, timestamp, both
\* assessments, erros and revisao_necessaria.  Only an exception raised
\* before the try is entered reaches the caller.
C1_SempreRetornaVeredito ==
    /\ pc = "cpo_excecao" => args[1].falha \notin FalhasNoTry \cup {"nenhuma", "extrair"}
    /\ pc \in {"cpo_dpi", "cpo_ocr", "cpo_status"} => resultado # Nulo
    /\ NoRetornoCpo =>
        /\ resultado # Nulo
        /\ DOMAIN resultado[1] =
              {"tenant_id", "arquivo", "timestamp", "status_cpo", "validacoes",
               "erros", "revisao_necessaria"}
        /\ DOMAIN resultado[1].validacoes = {"dpi", "ocr_confidence"}
        /\ resultado[1].status_cpo \in Cores
        /\ resultado[1].tenant_id # ""
        /\ resultado[1].arquivo = args[1].caminho_pdf
        /\ resultado[1].timestamp \in Instantes
        /\ resultado[1].revisao_necessaria \in BOOLEAN

\* C1 witness: the resolution assessment raised and a verdict is returned
C1_Witness ==
    /\ NoRetornoCpo
    /\ args[1].falha = "dpi"
    /\ resultado[1].status_cpo = Algum("VERMELHO")

\* C2: without an internal error, (status, revisao_necessaria) follows the
\* truth table of the two 'aprovado' flags: (T,T) VERDE/false, (T,F)
\* AMARELO/true, (F,T) AMARELO/true, (F,F) VERMELHO/true; and in every
\* verdict AMARELO holds exactly when one of the two is approved and erros
\* is empty.
C2_TabelaVerdade ==
    NoRetornoCpo =>
        LET st == resultado[1].status_cpo
            rev == resultado[1].revisao_necessaria
        IN  /\ resultado[1].erros = <<>> =>
                /\ (DpiAprovado /\ OcrAprovado) => (st = Algum("VERDE") /\ ~rev)
                /\ (DpiAprovado /\ ~OcrAprovado) => (st = Algum("AMARELO") /\ rev)
                /\ (~DpiAprovado /\ OcrAprovado) => (st = Algum("AMARELO") /\ rev)
                /\ (~DpiAprovado /\ ~OcrAprovado) => (st = Algum("VERMELHO") /\ rev)
            /\ st = Algum("AMARELO") <=>
                  ((DpiAprovado # OcrAprovado) /\ resultado[1].erros = <<>>)
            /\ rev = (st # Algum("VERDE"))

\* C2 witness: resolution rejected, confidence approved, no error: AMARELO
C2_Witness ==
    /\ NoRetornoCpo
    /\ ~DpiAprovado
    /\ OcrAprovado
    /\ resultado[1].erros = <<>>
    /\ resultado[1].status_cpo = Algum("AMARELO")

\* C3: in every verdict, status is VERMELHO exactly when both assessments
\* of the verdict are not approved or erros is not empty; an exception
\* caught by validar_cpo is appended to erros as {tipo, mensagem} and the
\* verdict is then VERMELHO with revisao_necessaria, whatever the stored
\* assessments say.
C3_VermelhoSse ==
    NoRetornoCpo =>
        /\ resultado[1].status_cpo = Algum("VERMELHO") <=>
              ((~DpiAprovado /\ ~OcrAprovado) \/ resultado[1].erros # <<>>)
        /\ args[1].falha \in FalhasNoTry =>
              /\ resultado[1].erros =
                    <<[tipo |-> ExcDaFalha, mensagem |-> StrExc(ExcDaFalha)]>>
              /\ resultado[1].status_cpo = Algum("VERMELHO")
              /\ resultado[1].revisao_necessaria
        /\ args[1].falha \notin FalhasNoTry => resultado[1].erros = <<>>

\* C3 witness: the OCR assessment raised after an approved resolution
\* assessment was stored
C3_Witness ==
    /\ NoRetornoCpo
    /\ args[1].falha = "ocr"
    /\ DpiAprovado
    /\ resultado[1].erros # <<>>
    /\ resultado[1].status_cpo = Algum("VERMELHO")

\* C4: in every assessment of _validar_confianca_ocr, aprovado holds exactly
\* when the reported confianca_media is known and >= 95.0; a pooled mean
\* below 95.0 is not reported as a value >= 95.0.
C4_AprovadoSseMediaReportada ==
    pc = "feito" =>
        (retorno[1].aprovado <=>
            (/\ retorno[1].confianca_media # Nulo
             /\ retorno[1].confianca_media[1] >= CONFIANCA_OCR_MINIMA_CENT))

\* C5: in every assessment of _validar_dpi, aprovado holds exactly when
\* dpi_detectado is known and >= 300: 300 is approved; 150, 72 and an
\* unknown class are not.
C5_AprovadoSseDpi300 ==
    pc = "feito" =>
        /\ retorno[1].aprovado <=>
              (/\ retorno[1].dpi_detectado # Nulo
               /\ retorno[1].dpi_detectado[1] >= 300)
        /\ retorno[1].dpi_detectado = Algum(300) => retorno[1].aprovado
        /\ retorno[1].dpi_detectado \in {Nulo, Algum(150), Algum(72)}
              => ~retorno[1].aprovado

\* C5 witness: a first page of exactly 2000 x 2500 is class 300 and approved
C5_Witness ==
    /\ pc = "feito"
    /\ amostra[1].doc.tamanho = Imagem(2000, 2500)
    /\ retorno[1].dpi_detectado = Algum(300)
    /\ retorno[1].aprovado

\* Python truthiness of the tenant_id validar_cpo received
TenantDado(a) == a.tenant_cpo # Nulo /\ a.tenant_cpo # Algum("")

\* memo and the call at its return are two validar_cpo calls
DoisRetornos == NoRetornoCpo /\ memo # Nulo

\* C6 as stated: a supplied tenant identifier is the verdict's tenant_id,
\* and any two validar_cpo calls made without a tenant identifier, also two
\* calls on the same processor, carry different tenant_ids.
C6_TenantNovoPorChamada ==
    /\ (NoRetornoCpo /\ args[1].tenant_cpo # Nulo) =>
          resultado[1].tenant_id = args[1].tenant_cpo[1]
    /\ (DoisRetornos /\ args[1].tenant_cpo = Nulo /\ memo[1].tenant_cpo = Nulo) =>
          resultado[1].tenant_id # memo[1].v.tenant_id

\* C6 amended: a non-empty tenant identifier supplied to the call is the
\* verdict's tenant_id; otherwise (None or '') the verdict carries the
\* tenant_id of the processor, fixed when the processor was built and
\* generated then if none was given.  Two calls without a tenant identifier
\* carry the same tenant_id on the same processor and different ones on two
\* processors built without a tenant; no call changes a processor's
\* tenant_id.
C6_TenantDoProcessador ==
    /\ NoRetornoCpo =>
          resultado[1].tenant_id =
              (IF TenantDado(args[1]) THEN args[1].tenant_cpo[1]
               ELSE args[1].self_tenant)
    /\ (args # Nulo /\ args[1].proc > 0) =>
          args[1].self_tenant = processadores[args[1].proc].tenant_id
    /\ memo # Nulo /\ memo[1].proc > 0 =>
          memo[1].self_tenant = processadores[memo[1].proc].tenant_id
    /\ \A i, j \in 1..Len(processadores) :
          (i # j /\ processadores[i].gerado /\ processadores[j].gerado) =>
              processadores[i].tenant_id # processadores[j].tenant_id
    /\ (DoisRetornos /\ ~TenantDado(args[1]) /\ ~TenantDado(memo[1])) =>
          /\ args[1].proc = memo[1].proc =>
                resultado[1].tenant_id = memo[1].v.tenant_id
          /\ (/\ args[1].proc # memo[1].proc
              /\ processadores[args[1].proc].gerado
              /\ processadores[memo[1].proc].gerado) =>
                resultado[1].tenant_id # memo[1].v.tenant_id

\* C6 witness: two calls without tenant_id on one processor built without a
\* tenant return the same generated tenant_id
C6_Witness ==
    /\ DoisRetornos
    /\ args[1].via = "validar_cpo"
    /\ args[1].tenant_cpo = Nulo
    /\ memo[1].tenant_cpo = Nulo
    /\ args[1].proc = memo[1].proc
    /\ processadores[args[1].proc].gerado
    /\ resultado[1].tenant_id = memo[1].v.tenant_id

\* the first page of the running call's document does not render
RenderFalhou(doc) ==
    doc.abrir # "ok" \/ doc.primeira # "ok" \/ doc.tamanho.r # "ok"

\* C7: when the first page fails to render in any way, the resolution
\* assessment stored in the verdict has aprovado false, dpi_detectado None
\* and the 'not detectable' message, not the 'insufficient' one; the
\* rendering exception is not raised to validar_cpo and is not in erros.
C7_RenderFalhoIndetectavel ==
    (/\ pc \in {"cpo_ocr", "cpo_status", "cpo_saida"}
     /\ args[1].falha \notin {"dpi", "extrair"}
     /\ RenderFalhou(args[1].caminho_pdf)) =>
        LET dpi == resultado[1].validacoes.dpi
        IN  /\ ~dpi.aprovado
            /\ dpi.dpi_detectado = Nulo
            /\ dpi.mensagem # Nulo
            /\ dpi.mensagem[1].k = "dpi_indetectavel"
            /\ \A i \in 1..Len(resultado[1].erros) :
                  resultado[1].erros[i].tipo \notin ExcConversao \cup ExcOutras
            /\ args[1].falha = "nenhuma" => resultado[1].erros = <<>>

\* C7 witness: the renderer is missing and the verdict is returned
C7_Witness ==
    /\ NoRetornoCpo
    /\ args[1].caminho_pdf.primeira = "PDFInfoNotInstalledError"
    /\ args[1].falha = "nenhuma"
    /\ resultado[1].validacoes.dpi.mensagem[1].k = "dpi_indetectavel"
    /\ resultado[1].erros = <<>>

\* a token that is the 'not scored' value -1, as a number or as a numeral
NaoPontuado(t) == t.val = -1 /\ t.typ \in {"int", "str"}

\* nothing of the document can be scored: no page rendered, or every page
\* failed or holds only 'not scored' tokens
SemDadosDeConfianca(doc) ==
    \/ doc.paginas.r # "ok"
    \/ \A i \in 1..Len(doc.paginas.imgs) :
          LET pg == doc.paginas.imgs[i]
          IN  \/ pg.r # "ok"
              \/ \A j \in 1..Len(pg.conf) : NaoPontuado(pg.conf[j])

\* C8: when no page rendered, every page failed or every token of every
\* page is the 'not scored' value, _validar_confianca_ocr returns aprovado
\* false, confianca_media None and a 'no confidence data' message, not the
\* 'below the minimum' one.
C8_SemDadosSemMedia ==
    (pc = "feito" /\ SemDadosDeConfianca(amostra[1].doc)) =>
        /\ ~retorno[1].aprovado
        /\ retorno[1].confianca_media = Nulo
        /\ retorno[1].mensagem # Nulo
        /\ retorno[1].mensagem[1].k \in
              {"ocr_sem_dados", "ocr_sem_imagens", "ocr_erro"}

\* C9: two validar_cpo calls on the same document with the same tenant,
\* meeting the same fault, on the same or on different processors and with
\* any calls in between, return the same status, the same assessments, the
\* same erros and the same revisao_necessaria; the timestamp may differ.
C9_Idempotente ==
    (/\ DoisRetornos
     /\ memo[1].caminho_pdf = args[1].caminho_pdf
     /\ memo[1].falha = args[1].falha
     /\ memo[1].v.tenant_id = resultado[1].tenant_id) =>
        /\ memo[1].v.status_cpo = resultado[1].status_cpo
        /\ memo[1].v.validacoes = resultado[1].validacoes
        /\ memo[1].v.erros = resultado[1].erros
        /\ memo[1].v.revisao_necessaria = resultado[1].revisao_necessaria
        /\ memo[1].v.arquivo = resultado[1].arquivo

\* C9 witness: the same document and tenant on two processors at two
\* instants
C9_Witness ==
    /\ DoisRetornos
    /\ memo[1].caminho_pdf = args[1].caminho_pdf
    /\ memo[1].falha = args[1].falha
    /\ memo[1].v.tenant_id = resultado[1].tenant_id
    /\ memo[1].proc # args[1].proc
    /\ memo[1].v.timestamp # resultado[1].timestamp
    /\ memo[1].v.status_cpo = Algum("AMARELO")
    /\ resultado[1].status_cpo = Algum("AMARELO")

\* the lifecycle marker of the running processar_documento
Marcador == resultado_pd[1].processamento.status

C10_NoRetorno ==
    /\ resultado_pd # Nulo =>
          /\ Marcador \in {"iniciado", "concluido", "erro"}
          /\ Marcador = "iniciado" <=> ~NoRetornoPd
          /\ args[1].chamadas_cpo <= 1
    /\ NoRetornoPd =>
          /\ args[1].chamadas_cpo = 1
          /\ Marcador = "concluido" <=>
                resultado_pd[1].processamento.validacao_cpo # Nulo
          /\ Marcador = "concluido" => resultado_pd[1].erros = <<>>
          /\ Marcador = "erro" <=>
                (/\ resultado_pd[1].processamento.validacao_cpo = Nulo
                 /\ resultado_pd[1].erros =
                       <<[tipo |-> ExcDaFalha, mensagem |-> StrExc(ExcDaFalha)]>>)

C10_MarcadorFinal ==
    (/\ resultado_pd # Nulo
     /\ resultado_pd' # Nulo
     /\ Marcador \in {"concluido", "erro"}) => Marcador' = Marcador

\* C10: processar_documento makes one validar_cpo call; its marker starts
\* as 'iniciado' and at the return is 'concluido' or 'erro', 'concluido'
\* exactly when the verdict is stored in validacao_cpo and 'erro' exactly
\* when validacao_cpo is None and erros holds the caught exception; once
\* 'concluido' or 'erro' the marker does not change.
C10_CicloDeVida == [] C10_NoRetorno /\ [][C10_MarcadorFinal]_vars

\* C10 witness: the module function returns 'concluido' with a stored verdict
C10_Witness ==
    /\ NoRetornoPd
    /\ args[1].via = "funcao"
    /\ Marcador = "concluido"
    /\ resultado_pd[1].processamento.validacao_cpo # Nulo
    /\ resultado_pd[1].processamento.validacao_cpo[1].status_cpo = Algum("VERDE")

\* a page the loop of l.313 goes through without raising: image_to_data
\* answered and every token of 'conf' is a number or an integer numeral
PaginaProcessada(pagina) ==
    /\ pagina.r = "ok"
    /\ \A j \in 1..Len(pagina.conf) : pagina.conf[j].typ # "txt"

\* the scored tokens of one page: its tokens but the 'not scored' value
RECURSIVE PontuadosPagina(_)
PontuadosPagina(conf) ==
    IF conf = <<>> THEN <<>>
    ELSE (IF NaoPontuado(Head(conf)) THEN <<>>
          ELSE <<[val |-> Head(conf).val, n |-> Head(conf).n]>>)
         \o PontuadosPagina(Tail(conf))

\* the scored tokens of all processed pages
RECURSIVE Pontuados(_)
Pontuados(imgs) ==
    IF imgs = <<>> THEN <<>>
    ELSE (IF PaginaProcessada(Head(imgs)) THEN PontuadosPagina(Head(imgs).conf)
          ELSE <<>>)
         \o Pontuados(Tail(imgs))

\* C11: when the pages were rendered and hold a scored token, the reported
\* confianca_media is the sum of the scored tokens of all processed pages
\* divided by their count (to two decimals): the 'not scored' value -1 is in
\* neither the sum nor the count.
C11_MediaAgrupada ==
    (/\ pc = "feito"
     /\ amostra[1].doc.paginas.r = "ok"
     /\ Pontuados(amostra[1].doc.paginas.imgs) # <<>>) =>
        LET ps == Pontuados(amostra[1].doc.paginas.imgs)
        IN  retorno[1].confianca_media = Algum(Arred2(Soma(ps), Conta(ps)))

\* the sample's first page renders and its size reaches the buckets
PrimeiraRenderizada(a) ==
    /\ a.falha = Nulo
    /\ a.doc.abrir = "ok"
    /\ a.doc.primeira = "ok"
    /\ a.doc.tamanho.r = "ok"

\* C12: when the first page renders, the detected class is 300 exactly when
\* width >= 2000 and height >= 2500, else 150 exactly when width >= 1000 and
\* height >= 1400, else 72; the detected class is never anything but 300,
\* 150, 72 or None.
C12_ClassesPorFaixa ==
    pc = "feito" =>
        /\ retorno[1].dpi_detectado \in {Nulo, Algum(72), Algum(150), Algum(300)}
        /\ PrimeiraRenderizada(amostra[1]) =>
              LET w == amostra[1].doc.tamanho.w
                  h == amostra[1].doc.tamanho.h
                  alta == w >= 2000 /\ h >= 2500
                  media == w >= 1000 /\ h >= 1400
                  dpi == retorno[1].dpi_detectado
              IN  /\ dpi # Nulo
                  /\ dpi = Algum(300) <=> alta
                  /\ dpi = Algum(150) <=> (~alta /\ media)
                  /\ dpi = Algum(72) <=> (~alta /\ ~media)

\* C12 witness: a page wide enough for class 300 but one pixel short in
\* height is class 150
C12_Witness ==
    /\ pc = "feito"
    /\ PrimeiraRenderizada(amostra[1])
    /\ amostra[1].doc.tamanho = Imagem(2500, 2499)
    /\ retorno[1].dpi_detectado = Algum(150)

\* C14: for any two rendered first pages with w1 <= w2 and h1 <= h2, the
\* class detected for (w2, h2) is at least the class detected for (w1, h1),
\* in the order 72 < 150 < 300.
C14_Monotona ==
    (pc = "feito" /\ PrimeiraRenderizada(amostra[1])) =>
        \A d2 \in DocsDpi :
            LET a2 == [doc |-> d2, falha |-> Nulo]
            IN  (/\ PrimeiraRenderizada(a2)
                 /\ amostra[1].doc.tamanho.w <= d2.tamanho.w
                 /\ amostra[1].doc.tamanho.h <= d2.tamanho.h) =>
                    /\ retorno[1].dpi_detectado # Nulo
                    /\ ValidarDpi(d2, Nulo).dpi_detectado # Nulo
                    /\ ValidarDpi(d2, Nulo).dpi_detectado[1] >=
                           retorno[1].dpi_detectado[1]

\* C14 witness: 1200 x 1600 is class 150, and the larger page 2000 x 2500
\* is class 300
C14_Witness ==
    /\ pc = "feito"
    /\ PrimeiraRenderizada(amostra[1])
    /\ amostra[1].doc.tamanho = Imagem(1200, 1600)
    /\ retorno[1].dpi_detectado = Algum(150)
    /\ \E d2 \in DocsDpi :
          /\ PrimeiraRenderizada([doc |-> d2, falha |-> Nulo])
          /\ d2.tamanho = Imagem(2000, 2500)
          /\ ValidarDpi(d2, Nulo).dpi_detectado = Algum(300)

\* the orders in which n pages can be processed
Permutacoes(n) ==
    {f \in [1..n -> 1..n] : \A i, j \in 1..n : f[i] = f[j] => i = j}

\* the document with its pages in the order f
Permutado(doc, f) ==
    [doc EXCEPT !.paginas.imgs = [i \in 1..Len(@) |-> @[f[i]]]]

\* what C13, C15 and C16 compare of a confidence assessment: the flag, the
\* reported mean and the kind of message, where 'no page converted' and 'no
\* confidence extracted' are both the 'no confidence data' kind
TipoMensagem(m) ==
    IF m = Nulo THEN "nenhuma"
    ELSE IF m[1].k \in {"ocr_sem_imagens", "ocr_sem_dados"} THEN "sem_dados"
    ELSE m[1].k

MesmoResultadoOcr(r1, r2) ==
    /\ r1.aprovado = r2.aprovado
    /\ r1.confianca_media = r2.confianca_media
    /\ TipoMensagem(r1.mensagem) = TipoMensagem(r2.mensagem)

\* C15: for every document, processing its pages in any order gives the same
\* reported mean, the same aprovado and the same message (kind and figures).
C15_OrdemDasPaginas ==
    (pc = "feito" /\ amostra[1].doc.paginas.r = "ok") =>
        \A f \in Permutacoes(Len(amostra[1].doc.paginas.imgs)) :
            LET outro == ValidarConfiancaOcr(Permutado(amostra[1].doc, f))
            IN  /\ MesmoResultadoOcr(outro, retorno[1])
                /\ outro.mensagem = retorno[1].mensagem

\* C15 witness: a page that fails before a page of two kinds of tokens, which
\* alone make the mean
C15_Witness ==
    /\ pc = "feito"
    /\ amostra[1].doc.paginas.r = "ok"
    /\ Len(amostra[1].doc.paginas.imgs) = 2
    /\ PaginaPulada(amostra[1].doc.paginas.imgs[1])
    /\ amostra[1].doc.paginas.imgs[2].conf =
          <<Trecho("int", 94, 1), Trecho("int", 95, RepGrande)>>
    /\ retorno[1].confianca_media # Nulo

\* a page of which nothing is pooled because its processing raises: at
\* image_to_data (l.317), at int() (l.326) or, no token being kept, at the
\* division of l.335
PaginaFalhou(pagina) ==
    PaginaPulada(pagina) \/ ConfiancasPagina(pagina.conf) = <<>>

\* the document without its i-th page
SemPagina(doc, i) ==
    [doc EXCEPT !.paginas.imgs =
        SubSeq(@, 1, i - 1) \o SubSeq(@, i + 1, Len(@))]

\* the tokens the pages other than the failed ones give to the pool
RECURSIVE ContaDasOutras(_)
ContaDasOutras(imgs) ==
    IF imgs = <<>> THEN 0
    ELSE (IF PaginaFalhou(Head(imgs)) THEN 0
          ELSE Conta(ConfiancasPagina(Head(imgs).conf)))
         + ContaDasOutras(Tail(imgs))

\* the loop of _validar_confianca_ocr has ended
OcrTerminou == quadros # Nulo /\ quadros[1].ocr.pc = "fim"

\* C13: image_to_data is called at most once for a page, and exactly once
\* for every page when the assessment ends; a failed page gives no token to
\* the pool, the tokens of every other page are pooled, and the assessment
\* is the one of the same document without the failed page.
C13_PaginaPuladaUmaVez ==
    (quadros # Nulo /\ quadros[1].ocr.pc \in {"laco", "fim"}
        /\ quadros[1].ocr.images # <<>>) =>
        LET q == quadros[1].ocr
            n == Len(q.images)
        IN  /\ \A i \in 1..n : q.chamadas_ocr[i] <= 1
            /\ OcrTerminou =>
                  /\ \A i \in 1..n : q.chamadas_ocr[i] = 1
                  /\ Conta(q.confiancas) = ContaDasOutras(q.images)
                  /\ \A i \in 1..n : PaginaFalhou(q.images[i]) =>
                        MesmoResultadoOcr(q.resultado[1],
                            ValidarConfiancaOcr(SemPagina(amostra[1].doc, i)))

\* C13 witness: the first page fails at image_to_data, the second page's
\* tokens make the mean
C13_Witness ==
    /\ OcrTerminou
    /\ Len(quadros[1].ocr.images) = 2
    /\ quadros[1].ocr.images[1] = PaginaFalha
    /\ quadros[1].ocr.chamadas_ocr = <<1, 1>>
    /\ quadros[1].ocr.images[2].conf = <<Trecho("int", 95, 1)>>
    /\ quadros[1].ocr.resultado[1].aprovado
    /\ quadros[1].ocr.resultado[1].confianca_media = Algum(CONFIANCA_OCR_MINIMA_CENT)

\* the verdict of the order of validar_cpo: _validar_dpi, then
\* _validar_confianca_ocr, then the status
Sequencial(doc) ==
    Classificar([ResultadoInicial("acme", doc, 1) EXCEPT
        !.validacoes.dpi = ValidarDpi(doc, Nulo),
        !.validacoes.ocr_confidence = ValidarConfiancaOcr(doc)])

C16_MesmoVeredito ==
    quadros # Nulo =>
        /\ quadros[1].dpi.pc = "fim" =>
              quadros[1].dpi.resultado = Algum(ValidarDpi(amostra[1].doc, Nulo))
        /\ quadros[1].ocr.pc = "fim" =>
              quadros[1].ocr.resultado =
                  Algum(ValidarConfiancaOcr(amostra[1].doc))
        /\ NoRetornoCpo =>
              /\ resultado[1].validacoes = Sequencial(amostra[1].doc).validacoes
              /\ resultado[1].status_cpo = Sequencial(amostra[1].doc).status_cpo
              /\ resultado[1].revisao_necessaria =
                    Sequencial(amostra[1].doc).revisao_necessaria
              /\ resultado[1].erros = <<>>

C16_SemEstadoComum ==
    (quadros # Nulo /\ quadros' # Nulo) =>
        \/ quadros'[1].dpi = quadros[1].dpi
        \/ quadros'[1].ocr = quadros[1].ocr

\* C16: with the steps of the two assessments taken in any order, one after
\* the other or interleaved, each assessment is the one it is when run
\* alone, and the two stored assessments and the status are those of the
\* order _validar_dpi then _validar_confianca_ocr; no step of one assessment
\* writes a local of the other.
C16_Independentes == [] C16_MesmoVeredito /\ [][C16_SemEstadoComum]_vars

\* C16 witness: the confidence assessment of a two-page document has ended
\* before the resolution assessment made its first call
C16_Witness ==
    /\ pc = "paralelo"
    /\ quadros[1].dpi.pc = "abrir"
    /\ quadros[1].ocr.pc = "fim"
    /\ Len(amostra[1].doc.paginas.imgs) = 2
    /\ amostra[1].doc.tamanho = Imagem(2500, 3600)
    /\ quadros[1].ocr.resultado[1].confianca_media = Algum(9450)

=============================================================================
